---- MODULE Spec2Model ----
(***************************************************************************)
(* system/ui/text.py: the text wrapper (wrap_text), the renderer           *)
(* (TextWindowRenderer) and the viewer session (TextWindow with its       *)
(* worker thread).                                                         *)
(*                                                                         *)
(* A string is a sequence of one-character strings; the empty string is    *)
(* <<>>.  The specifications share the variables:                          *)
(*   WrapSpec  one call of wrap_text, one step per paragraph;              *)
(*   Spec      one TextWindow: the creating thread and the worker thread,  *)
(*             which constructs the renderer and renders the frames,       *)
(*             interleaved;                                                *)
(*   FairSpec  Spec with the fairness of close();                          *)
(*   LiveSpec  Spec with the fairness of both threads.                     *)
(***************************************************************************)
EXTENDS Integers, Sequences, FiniteSets, TLC

VARIABLES
  \* ---- wrap_text ----
  text,            \* the text argument
  max_width,       \* the max_width argument
  paragraphs,      \* text.split("\n")
  para,            \* index of the paragraph the for loop takes next
  lines,           \* the local list lines
  wrap_pc,         \* "loop", "done" ("idle": no call in progress)
  \* ---- TextWindow ----
  ci,              \* os.getenv("CI") is not None
  renderer,        \* self._renderer: "None" or "Renderer"
  stop_event,      \* self._stop_event.is_set()
  thread_pc,       \* position of the worker thread in _run
  window,          \* gui_app's window: "unopened", "open", "closed"
  gui_close_calls, \* number of calls of gui_app.close()
  main_pc,         \* position of the creating thread
  closes,          \* number of close() calls that have returned
  warnings,        \* number of warnings printed by close()
  frames,          \* number of renderer.render() calls that have returned,
                   \* counted up to MaxFrames
  \* ---- the host and TextWindowRenderer ----
  self_text,       \* self._text
  app_width,       \* gui_app.width
  app_height,      \* gui_app.height
  pc_host,         \* PC: a desktop host (TRUE) or the embedded device (FALSE)
  textarea_rect,   \* self._textarea_rect
  wrapped_lines,   \* self._wrapped_lines
  content_rect,    \* self._content_rect
  scroll_y,        \* self._scroll_panel._offset.y
  drawn,           \* indices of the lines draw_text_ex drew in the last frame
  render_ret,      \* the value the last render() returned
  close_requests,  \* number of calls of gui_app.request_close()
  reboots,         \* number of calls of HARDWARE.reboot()
  late_renders     \* history: render() calls begun with the stop flag set,
                   \* counted up to MaxFrames

wrap_vars == <<text, max_width, paragraphs, para, lines, wrap_pc>>
session_vars == <<ci, renderer, stop_event, thread_pc, window, gui_close_calls,
                  main_pc, closes, warnings, frames>>
vars == <<text, max_width, paragraphs, para, lines, wrap_pc,
          ci, renderer, stop_event, thread_pc, window, gui_close_calls,
          main_pc, closes, warnings, frames,
          self_text, app_width, app_height, pc_host,
          textarea_rect, wrapped_lines, content_rect,
          scroll_y, drawn, render_ret, close_requests, reboots, late_renders>>
host_vars == <<self_text, app_width, app_height, pc_host>>
layout_vars == <<textarea_rect, wrapped_lines, content_rect>>
frame_vars == <<scroll_y, drawn, render_ret, close_requests, reboots, late_renders>>
render_vars == <<host_vars, layout_vars, frame_vars>>

(***************************************************************************)
(* Bounds                                                                  *)
(***************************************************************************)
MaxTextLen == 5
MaxWidth == 3
MaxCloses == 2
MaxFrames == 2
MaxPresses == 1

Chars == {"a", "b", " ", "\n"}
Whitespace == {" ", "\n"}

RECURSIVE StringsUpTo(_)
StringsUpTo(n) ==
  IF n = 0 THEN {<<>>}
  ELSE LET shorter == StringsUpTo(n - 1)
       IN  shorter \cup {Append(s, c) : s \in {t \in shorter : Len(t) = n - 1}, c \in Chars}

Texts == StringsUpTo(MaxTextLen)
Widths == 1..MaxWidth

(***************************************************************************)
(* String primitives used by wrap_text                                     *)
(***************************************************************************)
\* glyph advance of one character at the font size (two glyph widths occur)
GlyphWidth(c) == IF c = "b" THEN 2 ELSE 1

\* rl.measure_text_ex(font, s, font_size, 0).x : the glyph advances summed
RECURSIVE measure_text_ex(_)
measure_text_ex(s) ==
  IF s = <<>> THEN 0 ELSE GlyphWidth(Head(s)) + measure_text_ex(Tail(s))

\* length of the longest prefix of s whose characters are all in (inSet = TRUE)
\* or all outside (inSet = FALSE) Whitespace: the run a \s* or \S* match takes
RunLen(s, inSet) ==
  CHOOSE n \in 0..Len(s) :
    /\ \A i \in 1..n : (s[i] \in Whitespace) = inSet
    /\ (n = Len(s) \/ (s[n + 1] \in Whitespace) # inSet)

\* text.split("\n")
RECURSIVE split(_)
split(s) ==
  IF \A i \in 1..Len(s) : s[i] # "\n" THEN <<s>>
  ELSE LET k == CHOOSE i \in 1..Len(s) : s[i] = "\n" /\ \A j \in 1..(i - 1) : s[j] # "\n"
       IN  <<SubSeq(s, 1, k - 1)>> \o split(SubSeq(s, k + 1, Len(s)))

\* paragraph.strip()
strip(p) ==
  LET lead == RunLen(p, TRUE)
      rest == SubSeq(p, lead + 1, Len(p))
      keep == CHOOSE n \in 0..Len(rest) :
                /\ \A i \in (n + 1)..Len(rest) : rest[i] \in Whitespace
                /\ (n = 0 \/ rest[n] \notin Whitespace)
  IN  SubSeq(rest, 1, keep)

\* current_line.rstrip()
rstrip(s) ==
  LET keep == CHOOSE n \in 0..Len(s) :
                /\ \A i \in (n + 1)..Len(s) : s[i] \in Whitespace
                /\ (n = 0 \/ s[n] \notin Whitespace)
  IN  SubSeq(s, 1, keep)

\* re.match(r"^\s*", paragraph).group()
indent_of(p) == SubSeq(p, 1, RunLen(p, TRUE))

\* re.split("(\s+)", s): word, whitespace, word, ..., word; the words at the
\* two ends may be empty
RECURSIVE re_split(_)
re_split(s) ==
  LET w == RunLen(s, FALSE)
      after == SubSeq(s, w + 1, Len(s))
      g == RunLen(after, TRUE)
  IN  IF after = <<>> THEN <<SubSeq(s, 1, w)>>
      ELSE <<SubSeq(s, 1, w), SubSeq(after, 1, g)>> \o re_split(SubSeq(after, g + 1, Len(after)))

(***************************************************************************)
(* wrap_text                                                               *)
(***************************************************************************)
\* if not paragraph.strip()
IsBlank(p) == strip(p) = <<>>

\* the test of line 61
Fits(test_line, mw) == measure_text_ex(test_line) <= mw

\* mutant of RestartLine: the overflowing word is lost
RestartLine_DropsWord(word) == <<" ">>

\* line 65: the line restarted after an overflow
RestartLine(word) == word \o <<" ">>

\* lines 58-65: the while loop over words; the result is <<lines, current_line>>
RECURSIVE WordLoop(_, _, _, _)
WordLoop(words, current_line, ls, mw) ==
  IF words = <<>> THEN <<ls, current_line>>
  ELSE LET word == Head(words)
           more == Tail(words)
           space == IF more # <<>> THEN Head(more) ELSE <<>>
           rest == IF more # <<>> THEN Tail(more) ELSE <<>>
           test_line == current_line \o word \o space
       IN  IF Fits(test_line, mw)
           THEN WordLoop(rest, test_line, ls, mw)
           ELSE WordLoop(rest, RestartLine(word), Append(ls, current_line), mw)

\* mutant of FinishParagraph: the line is pushed without the rstrip
FinishParagraph_NoStrip(ls, current_line) ==
  IF rstrip(current_line) # <<>> THEN Append(ls, current_line) ELSE ls

\* lines 66-68: the end of a paragraph
FinishParagraph(ls, current_line) ==
  LET stripped == rstrip(current_line)
  IN  IF stripped # <<>> THEN Append(ls, stripped) ELSE ls

\* lines 55-68: one non-blank paragraph
WrapParagraph(ls, p, mw) ==
  LET indent == indent_of(p)
      words == re_split(SubSeq(p, Len(indent) + 1, Len(p)))
      r == WordLoop(words, indent, ls, mw)
  IN  FinishParagraph(r[1], r[2])

\* mutant of BlankLine: the guard "if lines" is missing
BlankLine_Always(ls) == Append(ls, <<>>)

\* mutant of BlankLine: consecutive blank paragraphs are collapsed
BlankLine_Collapse(ls) ==
  IF ls # <<>> /\ ls[Len(ls)] # <<>> THEN Append(ls, <<>>) ELSE ls

\* lines 52-53: one blank paragraph
BlankLine(ls) == IF ls # <<>> THEN Append(ls, <<>>) ELSE ls

\* lines 49-70: the whole loop over the paragraphs
RECURSIVE WrapParagraphs(_, _, _)
WrapParagraphs(ps, ls, mw) ==
  IF ps = <<>> THEN ls
  ELSE WrapParagraphs(Tail(ps),
                      IF IsBlank(Head(ps)) THEN BlankLine(ls)
                      ELSE WrapParagraph(ls, Head(ps), mw),
                      mw)

\* lines 45-70
wrap_text(t, mw) == WrapParagraphs(split(t), <<>>, mw)

(***************************************************************************)
(* TextWindowRenderer                                                      *)
(***************************************************************************)
MARGIN == 8
LINE_HEIGHT == 72

\* rl.Rectangle(x, y, width, height)
Rectangle(x, y, w, h) == [x |-> x, y |-> y, width |-> w, height |-> h]

\* the fields of a renderer that is not constructed
NoRect == Rectangle(0, 0, 0, 0)

\* the texts, window sizes and scroll offsets tried.  The glyphs are 1 and 2
\* wide, so the window is MARGIN + 20 + 3 wide: "b b" wraps into two lines.
SessionTexts ==
  { <<>>, <<"a">>, <<"b", " ", "b">>, <<"a", "\n", "b", " ", "b">> }
AppWidths == {MARGIN + 20 + 3}
AppHeights == {LINE_HEIGHT, 2 * LINE_HEIGHT}
ScrollOffsets == {0, -LINE_HEIGHT, -LINE_HEIGHT - 1}

\* max(a, b)
Max(a, b) == IF a >= b THEN a ELSE b

\* line 75
TextareaRect(w, h) == Rectangle(MARGIN, 0, w - MARGIN, h)

\* line 76, for every window width and text tried (a table, so that the
\* wrapping is computed once)
WrappedTable ==
  [w \in AppWidths, t \in SessionTexts |->
     wrap_text(t, TextareaRect(w, 0).width - 20)]

\* line 76
WrappedLines(w, t) == WrappedTable[w, t]

\* line 77
ContentRect(rect, ls) == Rectangle(0, 0, rect.width - 20, Len(ls) * LINE_HEIGHT)

\* line 79 without the max(..., 0)
InitialOffsetY_NoClamp(content, rect) == -(content.height - rect.height)

\* line 79
InitialOffsetY(content, rect) == -Max(content.height - rect.height, 0)

\* line 85: position.y of the line of index i (from 0)
DrawY(rect, sy, i) == rect.y + sy + i * LINE_HEIGHT

\* line 86 with <= and >= in place of < and >
Culled_HalfOpen(rect, y) == y + LINE_HEIGHT <= rect.y \/ y >= rect.y + rect.height

\* line 86: the line is skipped
Culled(rect, y) == y + LINE_HEIGHT < rect.y \/ y > rect.y + rect.height

\* lines 84-88: the indices draw_text_ex is called with, in order
DrawnLines(rect, ls, sy) ==
  SelectSeq([k \in 1..Len(ls) |-> k - 1],
            LAMBDA i : ~Culled(rect, DrawY(rect, sy, i)))

\* lines 93-95: gui_app.request_close() is called
RequestsClose(pressed, pc) == pressed /\ pc

\* lines 93-97 without the else
Reboots_Always(pressed, pc) == pressed

\* lines 93-97: HARDWARE.reboot() is called
Reboots(pressed, pc) == pressed /\ ~pc

\* a counter that stops counting at MaxFrames
CountUp(n) == IF n < MaxFrames THEN n + 1 ELSE n

\* the renderer's variables while there is no renderer
RenderIdle ==
  /\ textarea_rect = NoRect /\ wrapped_lines = <<>> /\ content_rect = NoRect
  /\ scroll_y = 0 /\ drawn = <<>> /\ render_ret = FALSE
  /\ close_requests = 0 /\ reboots = 0 /\ late_renders = 0

\* the viewer session while wrap_text is called on its own
SessionIdle ==
  /\ ci = FALSE /\ renderer = "None" /\ stop_event = FALSE
  /\ thread_pc = "unstarted" /\ window = "unopened" /\ gui_close_calls = 0
  /\ main_pc = "none" /\ closes = 0 /\ warnings = 0 /\ frames = 0
  /\ self_text = <<>> /\ app_width = 0 /\ app_height = 0 /\ pc_host = TRUE
  /\ RenderIdle

\* lines 45-49: the call, up to the first paragraph of the loop
WrapInit ==
  /\ text \in Texts
  /\ max_width \in Widths
  /\ paragraphs = split(text)
  /\ para = 1
  /\ lines = <<>>
  /\ wrap_pc = "loop"
  /\ SessionIdle

\* lines 50-54
BlankParagraph ==
  /\ wrap_pc = "loop"
  /\ para <= Len(paragraphs)
  /\ IsBlank(paragraphs[para])
  /\ lines' = BlankLine(lines)
  /\ para' = para + 1
  /\ UNCHANGED <<text, max_width, paragraphs, wrap_pc, session_vars, render_vars>>

\* lines 55-68
NonBlankParagraph ==
  /\ wrap_pc = "loop"
  /\ para <= Len(paragraphs)
  /\ ~IsBlank(paragraphs[para])
  /\ lines' = WrapParagraph(lines, paragraphs[para], max_width)
  /\ para' = para + 1
  /\ UNCHANGED <<text, max_width, paragraphs, wrap_pc, session_vars, render_vars>>

\* line 70
WrapReturn ==
  /\ wrap_pc = "loop"
  /\ para > Len(paragraphs)
  /\ wrap_pc' = "done"
  /\ UNCHANGED <<text, max_width, paragraphs, para, lines, session_vars, render_vars>>

WrapNext == BlankParagraph \/ NonBlankParagraph \/ WrapReturn

WrapSpec == WrapInit /\ [][WrapNext]_vars

(***************************************************************************)
(* TextWindow: the creating thread and the worker thread                   *)
(***************************************************************************)
\* wrap_text's variables while no call of it is observed
WrapIdle ==
  /\ text = <<>> /\ max_width = 0 /\ paragraphs = <<>> /\ para = 0
  /\ lines = <<>> /\ wrap_pc = "idle"

\* self._thread.is_alive()
ThreadAlive == thread_pc # "done"

\* lines 103-108: the state when self._thread.start() has returned
Init ==
  /\ ci \in BOOLEAN
  /\ renderer = "None"
  /\ stop_event = FALSE
  /\ thread_pc = "check_ci"
  /\ window = "unopened"
  /\ gui_close_calls = 0
  /\ main_pc = "ctor_poll"
  /\ closes = 0
  /\ warnings = 0
  /\ frames = 0
  /\ self_text \in SessionTexts
  /\ app_width \in AppWidths
  /\ app_height \in AppHeights
  /\ pc_host \in BOOLEAN
  /\ RenderIdle
  /\ WrapIdle

\* ---- the worker thread: _run ----

\* lines 119-120: the CI flag is set, the worker returns
RunSkipped ==
  /\ thread_pc = "check_ci"
  /\ ci
  /\ thread_pc' = "done"
  /\ UNCHANGED <<wrap_vars, render_vars, ci, renderer, stop_event, window, gui_close_calls,
                 main_pc, closes, warnings, frames>>

\* line 119: the CI flag is not set
RunEnters ==
  /\ thread_pc = "check_ci"
  /\ ~ci
  /\ thread_pc' = "init_window"
  /\ UNCHANGED <<wrap_vars, render_vars, ci, renderer, stop_event, window, gui_close_calls,
                 main_pc, closes, warnings, frames>>

\* line 121: gui_app.init_window("Text") opens the window
InitWindow ==
  /\ thread_pc = "init_window"
  /\ window' = "open"
  /\ thread_pc' = "construct"
  /\ UNCHANGED <<wrap_vars, render_vars, ci, renderer, stop_event, gui_close_calls,
                 main_pc, closes, warnings, frames>>

\* line 121: gui_app.init_window raises; outside the try, the thread ends
InitWindowRaises ==
  /\ thread_pc = "init_window"
  /\ thread_pc' = "done"
  /\ UNCHANGED <<wrap_vars, render_vars, ci, renderer, stop_event, window, gui_close_calls,
                 main_pc, closes, warnings, frames>>

\* lines 122, 75-79: the renderer is constructed and published
ConstructRenderer ==
  /\ thread_pc = "construct"
  /\ textarea_rect' = TextareaRect(app_width, app_height)
  /\ wrapped_lines' = WrappedLines(app_width, self_text)
  /\ content_rect' = ContentRect(TextareaRect(app_width, app_height),
                                 WrappedLines(app_width, self_text))
  /\ scroll_y' = InitialOffsetY(
                   ContentRect(TextareaRect(app_width, app_height),
                               WrappedLines(app_width, self_text)),
                   TextareaRect(app_width, app_height))
  /\ renderer' = "Renderer"
  /\ thread_pc' = "next_frame"
  /\ UNCHANGED <<wrap_vars, host_vars, drawn, render_ret, close_requests, reboots,
                 late_renders, ci, stop_event, window, gui_close_calls,
                 main_pc, closes, warnings, frames>>

\* line 122: TextWindowRenderer(...) raises; outside the try, the thread ends
ConstructRaises ==
  /\ thread_pc = "construct"
  /\ thread_pc' = "done"
  /\ UNCHANGED <<wrap_vars, render_vars, ci, renderer, stop_event, window, gui_close_calls,
                 main_pc, closes, warnings, frames>>

\* line 124: gui_app.render() yields a frame
NextFrame ==
  /\ thread_pc = "next_frame"
  /\ thread_pc' = "check_stop"
  /\ UNCHANGED <<wrap_vars, render_vars, ci, renderer, stop_event, window,
                 gui_close_calls, main_pc, closes, warnings, frames>>

\* line 124: gui_app.render() ends (the window was closed) or raises
FramesEnd ==
  /\ thread_pc = "next_frame"
  /\ thread_pc' = "finally"
  /\ UNCHANGED <<wrap_vars, render_vars, ci, renderer, stop_event, window,
                 gui_close_calls, main_pc, closes, warnings, frames>>

\* mutant of CheckStop: the stop flag is not looked at
CheckStop_IgnoresFlag ==
  /\ thread_pc = "check_stop"
  /\ thread_pc' = "render"
  /\ UNCHANGED <<wrap_vars, render_vars, ci, renderer, stop_event, window,
                 gui_close_calls, main_pc, closes, warnings, frames>>

\* lines 125-126: the stop flag is read once per frame
CheckStop ==
  /\ thread_pc = "check_stop"
  /\ thread_pc' = IF stop_event THEN "finally" ELSE "render"
  /\ UNCHANGED <<wrap_vars, render_vars, ci, renderer, stop_event, window,
                 gui_close_calls, main_pc, closes, warnings, frames>>

\* mutant of RenderFrame: the lines that were culled are dropped from the list
RenderFrame_DropsCulled(y, pressed) ==
  /\ thread_pc = "render"
  /\ scroll_y' = y
  /\ drawn' = DrawnLines(textarea_rect, wrapped_lines, y)
  /\ wrapped_lines' = [k \in 1..Len(drawn') |-> wrapped_lines[drawn'[k] + 1]]
  /\ render_ret' = pressed
  /\ close_requests' = IF RequestsClose(pressed, pc_host) THEN close_requests + 1
                       ELSE close_requests
  /\ reboots' = IF Reboots(pressed, pc_host) THEN reboots + 1 ELSE reboots
  /\ frames' = CountUp(frames)
  /\ late_renders' = IF stop_event THEN CountUp(late_renders) ELSE late_renders
  /\ thread_pc' = "next_frame"
  /\ UNCHANGED <<wrap_vars, host_vars, textarea_rect, content_rect, ci, renderer,
                 stop_event, window, gui_close_calls, main_pc, closes, warnings>>

\* lines 81-98: one call of render() that returns; handle_scroll leaves the
\* offset at y and gui_button returns pressed
RenderFrame(y, pressed) ==
  /\ thread_pc = "render"
  /\ scroll_y' = y
  /\ drawn' = DrawnLines(textarea_rect, wrapped_lines, y)
  /\ render_ret' = pressed
  /\ close_requests' = IF RequestsClose(pressed, pc_host) THEN close_requests + 1
                       ELSE close_requests
  /\ reboots' = IF Reboots(pressed, pc_host) THEN reboots + 1 ELSE reboots
  /\ frames' = CountUp(frames)
  /\ late_renders' = IF stop_event THEN CountUp(late_renders) ELSE late_renders
  /\ thread_pc' = "next_frame"
  /\ UNCHANGED <<wrap_vars, host_vars, layout_vars, ci, renderer, stop_event,
                 window, gui_close_calls, main_pc, closes, warnings>>

\* line 127: renderer.render() returns; the button is activated at most
\* MaxPresses times
Render ==
  \E y \in ScrollOffsets \cup {scroll_y}, pressed \in BOOLEAN :
    /\ pressed => close_requests + reboots < MaxPresses
    /\ RenderFrame(y, pressed)

\* line 127: renderer.render() raises, after handle_scroll or before it
RenderRaises ==
  /\ thread_pc = "render"
  /\ scroll_y' \in ScrollOffsets \cup {scroll_y}
  /\ late_renders' = IF stop_event THEN CountUp(late_renders) ELSE late_renders
  /\ thread_pc' = "finally"
  /\ UNCHANGED <<wrap_vars, host_vars, layout_vars, drawn, render_ret,
                 close_requests, reboots, ci, renderer, stop_event, window,
                 gui_close_calls, main_pc, closes, warnings, frames>>

\* lines 128-129: finally: gui_app.close(), then the thread ends
Finally ==
  /\ thread_pc = "finally"
  /\ gui_close_calls' = gui_close_calls + 1
  /\ window' = "closed"
  /\ thread_pc' = "done"
  /\ UNCHANGED <<wrap_vars, render_vars, ci, renderer, stop_event, main_pc, closes, warnings, frames>>

\* ---- the creating thread ----

\* line 111: self._renderer is not None, __init__ returns
CtorSeesRenderer ==
  /\ main_pc = "ctor_poll"
  /\ renderer # "None"
  /\ main_pc' = "ready"
  /\ UNCHANGED <<wrap_vars, render_vars, ci, renderer, stop_event, thread_pc, window,
                 gui_close_calls, closes, warnings, frames>>

\* line 111: self._renderer is None, is_alive() is read next
CtorSeesNone ==
  /\ main_pc = "ctor_poll"
  /\ renderer = "None"
  /\ main_pc' = "ctor_alive"
  /\ UNCHANGED <<wrap_vars, render_vars, ci, renderer, stop_event, thread_pc, window,
                 gui_close_calls, closes, warnings, frames>>

\* lines 111-112: the thread is alive: sleep, then poll again
CtorSleeps ==
  /\ main_pc = "ctor_alive"
  /\ ThreadAlive
  /\ main_pc' = "ctor_poll"
  /\ UNCHANGED <<wrap_vars, render_vars, ci, renderer, stop_event, thread_pc, window,
                 gui_close_calls, closes, warnings, frames>>

\* mutant of CtorThreadEnded: the loop of line 111 waits for the renderer only
CtorThreadEnded_KeepsPolling ==
  /\ main_pc = "ctor_alive"
  /\ ~ThreadAlive
  /\ main_pc' = "ctor_poll"
  /\ UNCHANGED <<wrap_vars, render_vars, ci, renderer, stop_event, thread_pc, window,
                 gui_close_calls, closes, warnings, frames>>

\* line 111: the thread is not alive, __init__ returns
CtorThreadEnded ==
  /\ main_pc = "ctor_alive"
  /\ ~ThreadAlive
  /\ main_pc' = "ready"
  /\ UNCHANGED <<wrap_vars, render_vars, ci, renderer, stop_event, thread_pc, window,
                 gui_close_calls, closes, warnings, frames>>

\* line 135 (close, also through __exit__ and __del__): the thread is not
\* alive, close() returns at once
CloseNoop ==
  /\ main_pc = "ready"
  /\ closes < MaxCloses
  /\ ~ThreadAlive
  /\ closes' = closes + 1
  /\ UNCHANGED <<wrap_vars, render_vars, ci, renderer, stop_event, thread_pc, window,
                 gui_close_calls, main_pc, warnings, frames>>

\* mutant of CloseBegin: the is_alive() test of line 135 is missing
CloseBegin_NoAliveTest ==
  /\ main_pc = "ready"
  /\ closes < MaxCloses
  /\ main_pc' = "close_set"
  /\ UNCHANGED <<wrap_vars, render_vars, ci, renderer, stop_event, thread_pc, window,
                 gui_close_calls, closes, warnings, frames>>

\* line 135: the thread is alive
CloseBegin ==
  /\ main_pc = "ready"
  /\ closes < MaxCloses
  /\ ThreadAlive
  /\ main_pc' = "close_set"
  /\ UNCHANGED <<wrap_vars, render_vars, ci, renderer, stop_event, thread_pc, window,
                 gui_close_calls, closes, warnings, frames>>

\* line 136: self._stop_event.set()
CloseSetStop ==
  /\ main_pc = "close_set"
  /\ stop_event' = TRUE
  /\ main_pc' = "close_join"
  /\ UNCHANGED <<wrap_vars, render_vars, ci, renderer, thread_pc, window, gui_close_calls,
                 closes, warnings, frames>>

\* the 2.0 s of the join may have elapsed at any step
TimeoutElapsed == TRUE

\* mutant of JoinReturns: join() without a timeout
JoinReturns_NoTimeout == ~ThreadAlive

\* line 137: join(timeout=2.0) returns when the thread has ended or the
\* timeout has elapsed
JoinReturns == ~ThreadAlive \/ TimeoutElapsed

CloseJoin ==
  /\ main_pc = "close_join"
  /\ JoinReturns
  /\ main_pc' = "close_recheck"
  /\ UNCHANGED <<wrap_vars, render_vars, ci, renderer, stop_event, thread_pc, window,
                 gui_close_calls, closes, warnings, frames>>

\* lines 138-139: warn if the thread is still alive; close() returns
CloseRecheck ==
  /\ main_pc = "close_recheck"
  /\ warnings' = IF ThreadAlive THEN warnings + 1 ELSE warnings
  /\ closes' = closes + 1
  /\ main_pc' = "ready"
  /\ UNCHANGED <<wrap_vars, render_vars, ci, renderer, stop_event, thread_pc, window,
                 gui_close_calls, frames>>

\* line 114: wait_for_exit() is called
WaitForExitBegin ==
  /\ main_pc = "ready"
  /\ main_pc' = "wait_for_exit"
  /\ UNCHANGED <<wrap_vars, render_vars, ci, renderer, stop_event, thread_pc, window,
                 gui_close_calls, closes, warnings, frames>>

\* lines 115-116: wait_for_exit() returns once the thread is not alive
WaitForExitReturn ==
  /\ main_pc = "wait_for_exit"
  /\ ~ThreadAlive
  /\ main_pc' = "ready"
  /\ UNCHANGED <<wrap_vars, render_vars, ci, renderer, stop_event, thread_pc, window,
                 gui_close_calls, closes, warnings, frames>>

Worker ==
  \/ RunSkipped \/ RunEnters
  \/ InitWindow \/ InitWindowRaises
  \/ ConstructRenderer \/ ConstructRaises
  \/ NextFrame \/ FramesEnd
  \/ CheckStop
  \/ Render \/ RenderRaises
  \/ Finally

Closer == CloseSetStop \/ CloseJoin \/ CloseRecheck

Creator ==
  \/ CtorSeesRenderer \/ CtorSeesNone \/ CtorSleeps \/ CtorThreadEnded
  \/ CloseNoop \/ CloseBegin
  \/ Closer
  \/ WaitForExitBegin \/ WaitForExitReturn

Next == Worker \/ Creator

Spec == Init /\ [][Next]_vars

\* the creating thread keeps running while it is inside close(); nothing is
\* assumed of the worker
FairSpec == Spec /\ WF_vars(Closer)

\* line 111: the polling loop of __init__
Constructor == CtorSeesRenderer \/ CtorSeesNone \/ CtorSleeps \/ CtorThreadEnded

\* the steps by which the creating thread leaves a loop or a call it is in;
\* its position enables at most one of them at a time
CreatorProgress == Constructor \/ Closer \/ WaitForExitReturn

\* both threads are scheduled: the worker keeps taking steps (gui_app.render()
\* keeps yielding frames or ends), the polling loops wake up after each sleep
\* and join() times out
LiveSpec ==
  /\ Spec
  /\ WF_vars(Worker)
  /\ WF_vars(CreatorProgress)

(***************************************************************************)
(* Properties of wrap_text (checked under WrapSpec)                        *)
(***************************************************************************)
\* the non-whitespace words of a string, in order
RECURSIVE Words(_)
Words(s) ==
  LET g == RunLen(s, TRUE)
      rest == SubSeq(s, g + 1, Len(s))
      w == RunLen(rest, FALSE)
  IN  IF rest = <<>> THEN <<>>
      ELSE <<SubSeq(rest, 1, w)>> \o Words(SubSeq(rest, w + 1, Len(rest)))

\* the words of a list of display lines, read in order
RECURSIVE WordsOfLines(_)
WordsOfLines(ls) ==
  IF ls = <<>> THEN <<>> ELSE Words(Head(ls)) \o WordsOfLines(Tail(ls))

\* the loop is about to take a paragraph
AtParagraph == wrap_pc = "loop" /\ para <= Len(paragraphs)

\* C1: every display line wrap_text returns measures at most max_width.
C1_NoOverflowingLine ==
  wrap_pc = "done" =>
    \A i \in 1..Len(lines) : measure_text_ex(lines[i]) <= max_width

\* C2: the words of the returned lines, read in order, are the words of the
\* input text in order: none dropped, duplicated or reordered.
C2_WordsPreserved ==
  wrap_pc = "done" => WordsOfLines(lines) = Words(text)

C2_Witness ==
  /\ wrap_pc = "done"
  /\ text = <<"b", " ", "a", " ", "b">>
  /\ max_width = 2
  /\ Len(lines) >= 3

\* C3 (as stated): a text of one paragraph that measures at most max_width is
\* returned as exactly one display line, the paragraph with its trailing
\* whitespace stripped.
C3_AnyFittingParagraphOneLine ==
  (wrap_pc = "done" /\ Len(paragraphs) = 1 /\ measure_text_ex(text) <= max_width)
    => lines = <<rstrip(text)>>

\* C3 (amended): a non-blank paragraph that measures at most max_width adds
\* exactly one display line: the paragraph with its indent kept and its
\* trailing whitespace stripped.
C3_FittingParagraphOneLine ==
  [][(/\ AtParagraph
      /\ ~IsBlank(paragraphs[para])
      /\ measure_text_ex(paragraphs[para]) <= max_width)
     => lines' = Append(lines, rstrip(paragraphs[para]))]_vars

C3_Witness ==
  /\ wrap_pc = "done"
  /\ text = <<" ", "a", " ">>
  /\ max_width = 3
  /\ lines = << <<" ", "a">> >>

\* C4: as long as only blank paragraphs have been taken, no display line has
\* been added; so wrap_text("") and every text of blank paragraphs only
\* return the empty list.
C4_LeadingBlankSuppressed ==
  (wrap_pc \in {"loop", "done"} /\ \A j \in 1..(para - 1) : IsBlank(paragraphs[j]))
    => lines = <<>>

C4_Witness ==
  /\ wrap_pc = "done"
  /\ text = <<>>
  /\ lines = <<>>

\* C5 (as stated): wrap_text("\na") is ["", "a"] when "a" fits.
C5_LeadingBlankKept ==
  (wrap_pc = "done" /\ text = <<"\n", "a">> /\ Fits(<<"a">>, max_width))
    => lines = << <<>>, <<"a">> >>

\* C5 (amended): wrap_text("\na") is ["a"] when "a" fits: the blank first
\* paragraph adds no display line.
C5_LeadingBlankDropped ==
  (wrap_pc = "done" /\ text = <<"\n", "a">> /\ Fits(<<"a">>, max_width))
    => lines = << <<"a">> >>

C5_Witness ==
  /\ wrap_pc = "done"
  /\ text = <<"\n", "a">>
  /\ Fits(<<"a">>, max_width)
  /\ Len(lines) = 1

\* C6: a blank paragraph taken after a non-blank one adds exactly one empty
\* display line at the end of the list, and every step only appends, so the
\* empty line stays between the lines of the neighbouring paragraphs.
C6_BlankParagraphOneEmptyLine ==
  [][/\ (/\ AtParagraph
         /\ IsBlank(paragraphs[para])
         /\ \E j \in 1..(para - 1) : ~IsBlank(paragraphs[j]))
        => lines' = Append(lines, <<>>)
     /\ Len(lines') >= Len(lines)
     /\ SubSeq(lines', 1, Len(lines)) = lines]_vars

C6_Witness ==
  /\ wrap_pc = "done"
  /\ text = <<"a", "\n", "\n", "\n", "b">>
  /\ max_width = 2
  /\ lines = << <<"a">>, <<>>, <<>>, <<"b">> >>

\* C18: every line a non-blank paragraph adds to the result contains a
\* non-whitespace character.
C18_NoEmptyLineFromNonBlank ==
  [][(AtParagraph /\ ~IsBlank(paragraphs[para])) =>
       \A i \in (Len(lines) + 1)..Len(lines') :
         \E k \in 1..Len(lines'[i]) : lines'[i][k] \notin Whitespace]_vars

(***************************************************************************)
(* Properties of TextWindow (checked under Spec and FairSpec)              *)
(***************************************************************************)
\* __init__ has returned
Constructed == main_pc \notin {"none", "ctor_poll", "ctor_alive"}

\* the creating thread is inside close(), past the test of line 135
InClose == main_pc \in {"close_set", "close_join", "close_recheck"}

\* C7: whenever __init__ has returned, the renderer is published or the
\* session was skipped under the CI flag.
C7_ReadyOrSkipped ==
  Constructed => (renderer # "None" \/ (ci /\ thread_pc = "done"))

\* C8: close() on a session whose worker has finished returns at once: from
\* a state where the creator is between calls and the worker has finished, no
\* step enters the stop/join path, sets the stop flag, prints a warning or
\* changes any other session state, however many times close() is called.
C8_CloseFinishedIsNoop ==
  [][(main_pc = "ready" /\ ~ThreadAlive)
     => /\ main_pc' \in {"ready", "wait_for_exit"}
        /\ UNCHANGED <<ci, renderer, stop_event, thread_pc, window,
                       gui_close_calls, warnings, frames>>]_vars

C8_Witness ==
  /\ main_pc = "ready"
  /\ ~ThreadAlive
  /\ closes >= 2
  /\ ~stop_event
  /\ warnings = 0

\* C9: a worker that has finished after opening the window has released it,
\* by exactly one call of gui_app.close().
C9_WindowReleased ==
  thread_pc = "done" =>
    /\ window # "open"
    /\ (window = "closed" => gui_close_calls = 1)

\* C10: close() on a running session sets the stop flag, then waits for a
\* bounded time: every close() returns; when it returns from the wait it has
\* printed one warning exactly if the worker is still alive, and it leaves
\* the worker where it is.
C10_CloseBoundedWait ==
  /\ [][(main_pc = "close_set" /\ main_pc' # main_pc)
        => (stop_event' /\ main_pc' = "close_join")]_vars
  /\ [][(main_pc = "close_recheck" /\ main_pc' # main_pc)
        => /\ main_pc' = "ready"
           /\ thread_pc' = thread_pc
           /\ warnings' = IF ThreadAlive THEN warnings + 1 ELSE warnings]_vars
  /\ (InClose ~> main_pc = "ready")

C10_Witness ==
  /\ main_pc = "ready"
  /\ ThreadAlive
  /\ stop_event
  /\ warnings >= 1

\* C11: under the CI flag the worker returns without opening a window,
\* constructing a renderer, rendering a frame or calling gui_app.close(),
\* and the protocol still completes: __init__ returns, wait_for_exit()
\* returns, and close() never enters its stop/join path.
C11_HeadlessInert ==
  /\ [](ci => /\ thread_pc \in {"check_ci", "done"}
              /\ window = "unopened"
              /\ renderer = "None"
              /\ frames = 0
              /\ gui_close_calls = 0
              /\ ~InClose)
  /\ (ci ~> Constructed)
  /\ ((ci /\ main_pc = "wait_for_exit") ~> main_pc = "ready")

C11_Witness ==
  /\ ci
  /\ thread_pc = "done"
  /\ main_pc = "ready"
  /\ closes >= 1
  /\ window = "unopened"
  /\ gui_close_calls = 0

\* C12: an iteration in which the worker reads the stop flag set leaves the
\* loop without calling render(); once the worker has left the loop it never
\* renders again; and at most one render() call begins with the flag set (the
\* frame that was past its check when the flag was set).
C12_StopCheckedBeforeRender ==
  /\ [][(thread_pc = "check_stop" /\ stop_event /\ thread_pc' # thread_pc)
        => (thread_pc' = "finally" /\ frames' = frames /\ drawn' = drawn)]_vars
  /\ [][(thread_pc \in {"finally", "done"})
        => (thread_pc' \in {"finally", "done"} /\ frames' = frames)]_vars
  /\ [](late_renders <= 1)

C12_Witness ==
  /\ stop_event
  /\ late_renders = 1
  /\ thread_pc = "done"
  /\ frames = 1

\* C13: once the stop flag is set, a worker that keeps being scheduled leaves
\* the render loop, releases the window and finishes; only close() writes the
\* flag.
C13_StopLeadsToClosed ==
  /\ (stop_event ~> (thread_pc = "done" /\ window = "closed" /\ gui_close_calls = 1))
  /\ [][stop_event' # stop_event => (main_pc = "close_set" /\ stop_event')]_vars

C13_Witness ==
  /\ stop_event
  /\ thread_pc = "done"
  /\ window = "closed"
  /\ gui_close_calls = 1
  /\ closes >= 1
  /\ warnings = 0

\* a step of the worker that is a whole render() call returning normally
RenderStep == thread_pc = "render" /\ thread_pc' = "next_frame"

\* a step of the creating thread
CreatorStep ==
  \/ main_pc' # main_pc
  \/ closes' # closes
  \/ warnings' # warnings
  \/ stop_event' # stop_event

\* C14: once the renderer exists its wrapped lines, viewport rectangle and
\* content rectangle never change; a render() call changes no session state
\* other than the scroll offset; the creating thread writes neither the layout
\* nor the scroll offset.
C14_LayoutWrittenOnce ==
  /\ [][(renderer # "None") => UNCHANGED layout_vars]_vars
  /\ [][(thread_pc = "render" /\ thread_pc' # thread_pc)
        => UNCHANGED <<layout_vars, host_vars, renderer, stop_event, window,
                       gui_close_calls, main_pc, closes, warnings>>]_vars
  /\ [][CreatorStep => UNCHANGED <<layout_vars, scroll_y>>]_vars

C14_Witness ==
  /\ renderer # "None"
  /\ frames >= 1
  /\ Len(wrapped_lines) = 3
  /\ Len(drawn) < Len(wrapped_lines)
  /\ scroll_y # InitialOffsetY(content_rect, textarea_rect)
  /\ textarea_rect = TextareaRect(app_width, app_height)
  /\ content_rect = ContentRect(textarea_rect, wrapped_lines)

\* C15: the step that constructs the renderer sets the content height to
\* line count x LINE_HEIGHT and the scroll offset to -(content height -
\* viewport height) if the content is taller than the viewport, else to 0; the
\* offset is never positive, and with taller content the bottom of the last
\* line is at the bottom of the viewport.
C15_InitialScrollOffset ==
  [][(renderer = "None" /\ renderer' # "None") =>
       /\ content_rect'.height = Len(wrapped_lines') * LINE_HEIGHT
       /\ scroll_y' = IF content_rect'.height > textarea_rect'.height
                      THEN -(content_rect'.height - textarea_rect'.height)
                      ELSE 0
       /\ scroll_y' <= 0
       /\ content_rect'.height > textarea_rect'.height =>
            DrawY(textarea_rect', scroll_y', Len(wrapped_lines') - 1) + LINE_HEIGHT
              = textarea_rect'.y + textarea_rect'.height
       /\ content_rect'.height <= textarea_rect'.height =>
            DrawY(textarea_rect', scroll_y', Len(wrapped_lines') - 1) + LINE_HEIGHT
              <= textarea_rect'.y + textarea_rect'.height]_vars

C15_Witness ==
  /\ thread_pc = "next_frame"
  /\ frames = 0
  /\ renderer # "None"
  /\ Len(wrapped_lines) = 3
  /\ textarea_rect.height = LINE_HEIGHT
  /\ scroll_y = -2 * LINE_HEIGHT

\* the vertical span [y, y + LINE_HEIGHT] of line i meets the viewport's span
Visible(rect, sy, i) ==
  /\ DrawY(rect, sy, i) + LINE_HEIGHT >= rect.y
  /\ DrawY(rect, sy, i) <= rect.y + rect.height

\* C16: a render() call draws exactly the lines whose vertical span meets the
\* viewport's, each once and in increasing index order.
C16_CullingHidesNothingVisible ==
  [][RenderStep =>
       /\ \A i \in 0..(Len(wrapped_lines) - 1) :
            Visible(textarea_rect, scroll_y', i)
              <=> (\E k \in 1..Len(drawn') : drawn'[k] = i)
       /\ \A k, l \in 1..Len(drawn') : k < l => drawn'[k] < drawn'[l]]_vars

C16_Witness ==
  /\ thread_pc = "next_frame"
  /\ frames >= 1
  /\ Len(wrapped_lines) = 3
  /\ scroll_y = -LINE_HEIGHT
  /\ textarea_rect.height = LINE_HEIGHT
  /\ drawn = <<0, 1, 2>>

\* C17: render() returns the button's state; a call in which the button is
\* activated requests application close on a desktop host and reboots on an
\* embedded host, never both; a call in which it is not does neither.
C17_ButtonOneAction ==
  [][RenderStep =>
       /\ render_ret' =>
            \/ /\ pc_host
               /\ close_requests' = close_requests + 1
               /\ reboots' = reboots
            \/ /\ ~pc_host
               /\ reboots' = reboots + 1
               /\ close_requests' = close_requests
       /\ ~render_ret' => (close_requests' = close_requests /\ reboots' = reboots)
       /\ render_ret' <=> (close_requests' + reboots' > close_requests + reboots)]_vars

C17_Witness ==
  /\ thread_pc = "next_frame"
  /\ render_ret
  /\ ~pc_host
  /\ reboots = 1
  /\ close_requests = 0

\* C19: when wait_for_exit() returns the worker has finished and no window is
\* left open, and the call changes no session state.
C19_WaitForExitAfterRelease ==
  [][(main_pc = "wait_for_exit" /\ main_pc' = "ready") =>
       /\ ~ThreadAlive
       /\ window # "open"
       /\ UNCHANGED <<stop_event, renderer, thread_pc, window, gui_close_calls,
                      closes, warnings, layout_vars, scroll_y>>]_vars

====
